---- MODULE Spec2Model ----
(***************************************************************************)
(* Enviromon backend (src/main.py): the ingestion pipeline.                *)
(*                                                                         *)
(*   serial bridge --fetch--> parse/validate --> AzureConnectionManager    *)
(*                                          \--> save_to_db (own thread)   *)
(*                                          \--> websocket_clients         *)
(*                                                                         *)
(* Coroutines (fetch_and_upload, process_queue, get_latest, the tasks      *)
(* get_latest creates, lifespan's shutdown, websocket_endpoint) all run on *)
(* one asyncio event loop thread: one action of the model is the code a    *)
(* coroutine runs between two awaits.  save_to_db runs in threads of its   *)
(* own, one action per statement that touches the session.                 *)
(*                                                                         *)
(* Numbers: a text numeral is parsed to hundredths (an integer), round(x,1)*)
(* gives tenths, int(float(x)) gives units.                                *)
(***************************************************************************)
EXTENDS Integers, Sequences, FiniteSets, Bags, TLC

(***************************************************************************)
(* Text: a string is a sequence of one-character strings.                  *)
(***************************************************************************)
Digits == <<"0", "1", "2", "3", "4", "5", "6", "7", "8", "9">>

IsDigit(c) == \E i \in 1..10 : Digits[i] = c

DigitVal(c) == (CHOOSE i \in 1..10 : Digits[i] = c) - 1

StartsWith(s, p) == Len(s) >= Len(p) /\ SubSeq(s, 1, Len(p)) = p

\* str.strip(chars): every leading and every trailing character of cs.
RECURSIVE LStrip(_, _)
LStrip(s, cs) == IF s # <<>> /\ Head(s) \in cs THEN LStrip(Tail(s), cs) ELSE s

RECURSIVE RStrip(_, _)
RStrip(s, cs) ==
    IF s # <<>> /\ s[Len(s)] \in cs THEN RStrip(SubSeq(s, 1, Len(s) - 1), cs) ELSE s

Strip(s, cs) == RStrip(LStrip(s, cs), cs)

\* str.strip() without an argument strips whitespace.
Whitespace == {" ", "\n", "\t", "\r"}

\* str.split(sep): cut at each occurrence of sep, left to right.
RECURSIVE SplitFrom(_, _, _)
SplitFrom(s, sep, i) ==
    IF i + Len(sep) - 1 > Len(s) THEN <<s>>
    ELSE IF SubSeq(s, i, i + Len(sep) - 1) = sep
         THEN <<SubSeq(s, 1, i - 1)>>
              \o SplitFrom(SubSeq(s, i + Len(sep), Len(s)), sep, 1)
         ELSE SplitFrom(s, sep, i + 1)

Split(s, sep) == SplitFrom(s, sep, 1)

(***************************************************************************)
(* float(): an optional sign, then digits with at most one point and at    *)
(* most two digits after it (the inputs of this model have no more), or    *)
(* nan / inf.  The value is in hundredths.                                 *)
(***************************************************************************)
RECURSIVE DigitsVal(_)
DigitsVal(s) ==
    IF s = <<>> THEN 0 ELSE DigitsVal(SubSeq(s, 1, Len(s) - 1)) * 10 + DigitVal(s[Len(s)])

AllDigits(s) == \A i \in 1..Len(s) : IsDigit(s[i])

ValueError == [kind |-> "ValueError"]

UnsignedParts(s, ps) ==
    IF Len(ps) = 1
    THEN IF s # <<>> /\ AllDigits(s)
         THEN [kind |-> "num", v |-> DigitsVal(s) * 100]
         ELSE ValueError
    ELSE IF /\ Len(ps) = 2
            /\ AllDigits(ps[1]) /\ AllDigits(ps[2])
            /\ Len(ps[1]) + Len(ps[2]) > 0
            /\ Len(ps[2]) <= 2
         THEN [kind |-> "num",
               v |-> DigitsVal(ps[1]) * 100
                     + (IF Len(ps[2]) = 1 THEN DigitsVal(ps[2]) * 10 ELSE DigitsVal(ps[2]))]
         ELSE ValueError

Unsigned(s) == UnsignedParts(s, Split(s, <<".">>))

Signed(neg, body, u) ==
    IF body = <<"n", "a", "n">> THEN [kind |-> "nan"]
    ELSE IF body = <<"i", "n", "f">> THEN [kind |-> "inf", neg |-> neg]
    ELSE IF u.kind = "num" /\ neg THEN [kind |-> "num", v |-> 0 - u.v]
    ELSE u

Unsign(s) == IF s # <<>> /\ Head(s) \in {"-", "+"} THEN Tail(s) ELSE s

float(s) == Signed(s # <<>> /\ Head(s) = "-", Unsign(s), Unsigned(Unsign(s)))

\* round(x, 1): hundredths to the nearest tenth (a tie, which the inputs of
\* this model never hold, to the even tenth); nan and inf stay.
round1(x) ==
    IF x.kind # "num" THEN x
    ELSE LET q == x.v \div 10
             r == x.v % 10
         IN  [kind |-> "num",
              v |-> IF r < 5 THEN q
                    ELSE IF r > 5 THEN q + 1
                    ELSE IF q % 2 = 0 THEN q ELSE q + 1]

\* int(x): truncation toward zero; int(nan) raises ValueError, int(inf)
\* raises OverflowError.
int(x) ==
    IF x.kind = "nan" THEN ValueError
    ELSE IF x.kind = "inf" THEN [kind |-> "OverflowError"]
    ELSE [kind |-> "num",
          v |-> IF x.v >= 0 THEN x.v \div 100 ELSE 0 - ((0 - x.v) \div 100)]

isnan(x) == x.kind = "nan"

(***************************************************************************)
(* The serial bridge's answers.  A response is a network failure, or a     *)
(* status code with a body.                                                *)
(***************************************************************************)
Label(w) == w \o <<":", " ">>

Sep == <<",", " ">>

\* The bridge's status line for four numerals.
StatusLine(t, h, l, d) ==
    Label(<<"T", "e", "m", "p">>) \o t \o <<" ", "C">> \o Sep
    \o Label(<<"H", "u", "m">>) \o h \o <<" ", "%">> \o Sep
    \o Label(<<"L", "i", "g", "h", "t">>) \o l \o <<" ", "%">> \o Sep
    \o Label(<<"D", "i", "s", "t">>) \o d \o <<" ", "c", "m">>

ErrorMarker == <<"{", "\"", "e", "r", "r", "o", "r", "\"", ":">>

\* {"error": "<msg>"}
ErrorPayload(msg) == ErrorMarker \o <<" ", "\"">> \o msg \o <<"\"", "}">>

Quoted(s) == <<"\"">> \o s \o <<"\"">>

N_31_5 == <<"3", "1", ".", "5">>
N_18_2 == <<"1", "8", ".", "2">>
N_22_0 == <<"2", "2", ".", "0">>
N_45_0 == <<"4", "5", ".", "0">>
N_30_04 == <<"3", "0", ".", "0", "4">>
N_19_96 == <<"1", "9", ".", "9", "6">>
N_40 == <<"4", "0">>
N_60 == <<"6", "0">>
N_5 == <<"5">>
N_0 == <<"0">>
N_10 == <<"1", "0">>
N_9_9 == <<"9", ".", "9">>
N_m0_5 == <<"-", "0", ".", "5">>
N_m3 == <<"-", "3">>
N_nan == <<"n", "a", "n">>
N_inf == <<"i", "n", "f">>
N_abc == <<"a", "b", "c">>
N_30_1 == <<"3", "0", ".", "1">>
N_19_9 == <<"1", "9", ".", "9">>
N_1 == <<"1">>

HotLine == StatusLine(N_31_5, N_18_2, N_40, N_5)
CalmLine == StatusLine(N_22_0, N_45_0, N_60, N_0)
EdgeLine == StatusLine(N_30_04, N_19_96, N_60, N_10)
DryLine == StatusLine(N_22_0, N_18_2, N_60, N_0)
WarmNearLine == StatusLine(N_31_5, N_45_0, N_60, N_10)
JustOverLine == StatusLine(N_30_1, N_19_9, N_60, N_1)
FracDistLine == StatusLine(N_22_0, N_45_0, N_60, N_9_9)
NegFracLightLine == StatusLine(N_22_0, N_45_0, N_m0_5, N_5)
NegDistLine == StatusLine(N_22_0, N_45_0, N_60, N_m3)
NanTempLine == StatusLine(N_nan, N_45_0, N_60, N_0)
NanHumLine == StatusLine(N_22_0, N_nan, N_60, N_0)
NegFracDistLine == StatusLine(N_22_0, N_45_0, N_60, N_m0_5)
NanLightLine == StatusLine(N_22_0, N_45_0, N_nan, N_0)
InfTempLine == StatusLine(N_inf, N_45_0, N_60, N_0)
InfDistLine == StatusLine(N_22_0, N_45_0, N_60, N_inf)
WordLine == StatusLine(N_22_0, N_abc, N_60, N_0)
GarbageLine == <<"g", "a", "r", "b", "a", "g", "e">>
\* four fields without their ": " labels
NoLabelLine == N_22_0 \o Sep \o N_45_0 \o Sep \o N_60 \o Sep \o N_0
FiveFieldLine == CalmLine \o Sep \o <<"x">>
UpstreamLine == ErrorPayload(<<"n", "o", " ", "d", "a", "t", "a">>)
BadJsonLine == ErrorMarker \o <<"x">>

Ok(text) == [net |-> TRUE, status |-> 200, text |-> text]

NetworkError == [net |-> FALSE, status |-> 0, text |-> <<>>]

\* Every answer the bridge gives in this model, by name: the lines bare,
\* one padded with whitespace and wrapped in quotes, one wrapped twice, a
\* 500 and a network failure.
Responses ==
    "hot" :> Ok(HotLine) @@ "calm" :> Ok(CalmLine) @@ "edge" :> Ok(EdgeLine)
    @@ "fracdist" :> Ok(FracDistLine)
    @@ "dry" :> Ok(DryLine) @@ "warmnear" :> Ok(WarmNearLine)
    @@ "justover" :> Ok(JustOverLine)
    @@ "quoted" :> Ok(<<" ">> \o Quoted(HotLine) \o <<"\n">>)
    @@ "quoted2" :> Ok(Quoted(Quoted(CalmLine)))
    @@ "negfraclight" :> Ok(NegFracLightLine) @@ "negdist" :> Ok(NegDistLine)
    @@ "nantemp" :> Ok(NanTempLine) @@ "nanlight" :> Ok(NanLightLine)
    @@ "nanhum" :> Ok(NanHumLine) @@ "negfracdist" :> Ok(NegFracDistLine)
    @@ "inftemp" :> Ok(InfTempLine) @@ "infdist" :> Ok(InfDistLine)
    @@ "word" :> Ok(WordLine) @@ "garbage" :> Ok(GarbageLine)
    @@ "nolabel" :> Ok(NoLabelLine) @@ "fivefields" :> Ok(FiveFieldLine)
    @@ "upstream" :> Ok(UpstreamLine) @@ "badjson" :> Ok(BadJsonLine)
    @@ "http500" :> [net |-> TRUE, status |-> 500, text |-> HotLine]
    @@ "neterr" :> NetworkError

AllResponses == DOMAIN Responses

(***************************************************************************)
(* Parsing and validation, as fetch_and_upload and get_latest each do it.  *)
(* An outcome is [kind |-> "ok", temp, hum, light, dist] or a failure kind:*)
(*   "network"    requests raised                                          *)
(*   "http"       status_code != 200                                       *)
(*   "upstream"   the body is an {"error": ...} payload                    *)
(*   "format"     not exactly 4 parts                                      *)
(*   "parse"      IndexError or ValueError in the conversions              *)
(*   "invalid"    nan temperature or humidity, negative light or distance  *)
(*   "unexpected" any other exception (the outer except Exception)         *)
(***************************************************************************)
\* A text is a sequence of strings: a fixed message is one string, the
\* message of the bridge's error payload its characters.
Text(msg) == <<msg>>

Fail(kind, error) == [kind |-> kind, error |-> Text(error)]

\* json.loads(line)['error'] for a line that starts with the marker: the
\* message of a well-formed {"error": "<msg>"}, else an exception.
JsonValue(rest, n) ==
    IF /\ n >= 3
       /\ rest[1] = "\"" /\ rest[n - 1] = "\"" /\ rest[n] = "}"
       /\ \A i \in 2..(n - 2) : rest[i] # "\""
    THEN [kind |-> "upstream", error |-> SubSeq(rest, 2, n - 2)]
    ELSE Fail("unexpected", "Unexpected error")

JsonRest(line) == LStrip(SubSeq(line, Len(ErrorMarker) + 1, Len(line)), {" "})

JsonError(line) == JsonValue(JsonRest(line), Len(JsonRest(line)))

\* part.split(": ")[1].split(" ")[0]
Second(a) ==
    IF Len(a) < 2 THEN [kind |-> "IndexError"]
    ELSE [kind |-> "str", s |-> Split(a[2], <<" ">>)[1]]

NumStr(part) == Second(Split(part, <<":", " ">>))

\* int(float(s)): float's ValueError comes first.
IntOf(f) == IF f.kind = "ValueError" THEN f ELSE int(f)

FirstError(vals, errs) ==
    IF errs # {}
    THEN [kind |-> vals[CHOOSE i \in errs : \A j \in errs : i <= j].kind]
    ELSE [kind |-> "ok", temp |-> vals[1], hum |-> vals[2],
          light |-> vals[3].v, dist |-> vals[4].v]

Converted(vals) ==
    FirstError(vals, {i \in 1..4 : vals[i].kind \in {"ValueError", "OverflowError"}})

\* The try block of the conversions: the four substrings first, then the
\* four conversions in order; the first exception raised is the outcome.
ConvertStrs(strs) ==
    IF \E i \in 1..4 : strs[i].kind = "IndexError" THEN [kind |-> "IndexError"]
    ELSE Converted(<<round1(float(strs[1].s)), round1(float(strs[2].s)),
                     IntOf(float(strs[3].s)), IntOf(float(strs[4].s))>>)

Convert(parts) == ConvertStrs([i \in 1..4 |-> NumStr(parts[i])])

\* fetch_and_upload, from the response to the validated values (177-214).
PollValidate(c) ==
    IF c.kind \in {"IndexError", "ValueError"} THEN Fail("parse", "Parse error")
    ELSE IF c.kind # "ok" THEN Fail("unexpected", "Unexpected error")
    ELSE IF isnan(c.temp) \/ isnan(c.hum) \/ c.light < 0 \/ c.dist < 0
    THEN Fail("invalid", "Invalid sensor values")
    ELSE c

PollParts(parts) ==
    IF Len(parts) # 4 THEN Fail("format", "Parse error: Expected 4 parts")
    ELSE PollValidate(Convert(parts))

PollLine(line) ==
    IF StartsWith(line, ErrorMarker) THEN JsonError(line)
    ELSE PollParts(Split(Strip(line, {"\""}), Sep))

PollParse(resp) ==
    IF ~resp.net THEN Fail("network", "Network error")
    ELSE IF resp.status # 200 THEN Fail("http", "HTTP error")
    ELSE PollLine(Strip(resp.text, Whitespace))

\* get_latest, from the response to the validated values or the error of
\* the payload it returns (282-349, 366-385).
LatestValidate(c) ==
    IF c.kind \in {"IndexError", "ValueError"} THEN Fail("parse", "Parse error")
    ELSE IF c.kind # "ok" THEN Fail("unexpected", "Unexpected error")
    ELSE IF isnan(c.temp) \/ isnan(c.hum) \/ c.light < 0 \/ c.dist < 0
    THEN Fail("invalid", "Invalid sensor values")
    ELSE c

LatestParts(parts) ==
    IF Len(parts) # 4 THEN Fail("format", "Invalid data format")
    ELSE LatestValidate(Convert(parts))

LatestLine(line) ==
    IF StartsWith(line, ErrorMarker) THEN JsonError(line)
    ELSE LatestParts(Split(Strip(line, {"\""}), Sep))

LatestParse(resp) ==
    IF ~resp.net THEN Fail("network", "Network error")
    ELSE IF resp.status # 200 THEN Fail("http", "Bridge HTTP error")
    ELSE LatestLine(Strip(resp.text, Whitespace))

\* What each path makes of each answer of the bridge.
PollParsed == [r \in AllResponses |-> PollParse(Responses[r])]

LatestParsed == [r \in AllResponses |-> LatestParse(Responses[r])]

(***************************************************************************)
(* Bounds of the model.                                                    *)
(***************************************************************************)
\* poll cycles fetch_and_upload runs
MaxCycles == 2
\* GET /api/latest requests served
MaxRequests == 2
\* send_message tasks those requests create
MaxTasks == 1
\* websocket subscribers
MaxClients == 2

(***************************************************************************)
(* State.                                                                  *)
(***************************************************************************)
VARIABLES
    azure,              \* AZURE_IOT_HUB_CONNECTION_STRING is set
    bridge,             \* the responses the serial bridge may give (their names)
    sinkUp,             \* the IoT hub can be reached
    client,             \* azure_manager.client
    sessions,           \* live sessions to the hub, whoever holds their handle
    lock,               \* azure_manager.lock: its holder, or Free
    message_queue,      \* azure_manager.message_queue
    running,            \* azure_manager.running
    sent,               \* the messages the hub has received (a bag)
    send,               \* each send_message invocation: pc, attempt, data
    blocked,            \* the coroutine in which the loop thread sits in lock.acquire()
    poll,               \* fetch_and_upload: pc, data, the snapshot list(websocket_clients)
                        \* and the clients of it still to push to
    cycles,             \* poll cycles started
    drainPc,            \* process_queue
    shutdownPc,         \* lifespan's shutdown
    replies,            \* the payloads get_latest returned
    threads,            \* the save_to_db threads started, in order
    db,                 \* the committed rows: [readings, alerts]
    websocket_clients,  \* the set of subscribed websockets
    ws                  \* each websocket: its connection and what it received

dmVars == <<client, sessions, lock, message_queue, running, sent, send, blocked>>
callerVars == <<poll, drainPc, threads, websocket_clients, ws>>
vars == <<azure, bridge, sinkUp, client, sessions, lock, message_queue, running,
          sent, send, blocked, poll, cycles, drainPc, shutdownPc, replies,
          threads, db, websocket_clients, ws>>

Free == <<"free", 0>>
NoTask == <<"none", 0>>
Poll == <<"poll", 0>>
Drain == <<"drain", 0>>
Shutdown == <<"shutdown", 0>>
Task(i) == <<"task", i>>
Tasks == {Task(i) : i \in 1..MaxTasks}
Senders == {Poll, Drain} \cup Tasks
Clients == 1..MaxClients

\* datetime.now() is different for every reading: the timestamp names the
\* cycle or the request that made the reading.
Stamp(who, n) == <<who, n>>

NoData == [timestamp |-> Stamp("none", 0)]
Idle == [pc |-> "idle", attempt |-> 0, data |-> NoData]

Reading(o, ts) ==
    [temperature |-> o.temp, humidity |-> o.hum, light |-> o.light,
     distance |-> o.dist, timestamp |-> ts]

(***************************************************************************)
(* AzureConnectionManager.  The lock is a threading.Lock taken with a      *)
(* plain `with` inside coroutines: a coroutine that finds it held blocks   *)
(* the event loop thread itself (blocked), and its holder, a coroutine of  *)
(* the same loop suspended at an await, is never resumed to release it.    *)
(***************************************************************************)
LoopRuns == blocked = NoTask

SetSend(s, pc, attempt, data) ==
    send' = [send EXCEPT ![s] = [pc |-> pc, attempt |-> attempt, data |-> data]]

\* A connect() that never looks at the client it has.
ReuseNever == FALSE

\* connect(), line 73: a client that is connected is kept.
Reuse == client = "connected"

\* connect() (72-81) entered by sender s at the top of an attempt, up to
\* the first await of the attempt.

BeginAttempt(s, attempt, data) ==
    IF lock # Free
    THEN /\ blocked' = s
         /\ SetSend(s, "lock_connect", attempt, data)
         /\ UNCHANGED <<client, lock>>
    ELSE IF Reuse
    THEN \* returns True at once; send_message awaits client.send_message
         /\ SetSend(s, "tx", attempt, data)
         /\ UNCHANGED <<client, lock, blocked>>
    ELSE \* a new client; awaits client.connect() with the lock held
         /\ client' = "created"
         /\ lock' = s
         /\ SetSend(s, "connecting", attempt, data)
         /\ UNCHANGED blocked

\* save_to_db's thread, started by fetch_and_upload or get_latest.
NewThread(d) ==
    [pc |-> "begin", attempt |-> 0, session |-> <<>>, err |-> "none", cls |-> "none",
     dirty |-> FALSE, hist |-> <<>>,
     temp |-> d.temperature, hum |-> d.humidity, light |-> d.light,
     dist |-> d.distance, of |-> d.timestamp]

\* What the caller of send_message does when it returns.
\*   fetch_and_upload (228-241): starts the save_to_db thread, snapshots the
\*     subscribers and pushes to each, then sleeps;
\*   process_queue (120): sleeps;
\*   a task created by get_latest: ends.
AfterSend(s) ==
    IF s = Poll
    THEN /\ threads' = Append(threads, NewThread(poll.data))
         /\ poll' = [poll EXCEPT !.pc = IF websocket_clients = {} THEN "sleep"
                                         ELSE "broadcast",
                                 !.snap = websocket_clients,
                                 !.todo = websocket_clients]
         /\ UNCHANGED <<drainPc, websocket_clients, ws>>
    ELSE IF s = Drain
    THEN /\ drainPc' = "sleep"
         /\ UNCHANGED <<poll, threads, websocket_clients, ws>>
    ELSE UNCHANGED callerVars

\* A send_message that queues the reading and goes on to its next attempt.
OnConnectFailedContinue(s) ==
    /\ message_queue' = Append(message_queue, send[s].data)
    /\ SetSend(s, "backoff", send[s].attempt, send[s].data)
    /\ UNCHANGED callerVars

\* What send_message does when connect() returned False (92-95).
OnConnectFailed(s) ==
    /\ message_queue' = Append(message_queue, send[s].data)
    /\ SetSend(s, "done", send[s].attempt, send[s].data)
    /\ AfterSend(s)

\* await self.client.connect() completes (81-87).
ConnectDone(s) ==
    /\ LoopRuns
    /\ send[s].pc = "connecting"
    /\ IF sinkUp
       THEN /\ client' = "connected"
            /\ sessions' = sessions + 1
            /\ lock' = Free
            /\ SetSend(s, "tx", send[s].attempt, send[s].data)
            /\ UNCHANGED <<message_queue, callerVars>>
       ELSE /\ client' = "None"
            /\ lock' = Free
            /\ OnConnectFailed(s)
            /\ UNCHANGED sessions
    /\ UNCHANGED <<azure, bridge, sinkUp, running, sent, blocked, cycles,
                   shutdownPc, replies, db>>

\* A send_message that returns after its last failed attempt and leaves
\* the client as it is.
TeardownSkipped(s) ==
    /\ SetSend(s, "done", send[s].attempt, send[s].data)
    /\ AfterSend(s)
    /\ UNCHANGED <<lock, blocked>>

\* with self.lock (107-110) after the last failed attempt.
Teardown(s) ==
    IF lock # Free
    THEN /\ blocked' = s
         /\ SetSend(s, "lock_teardown", send[s].attempt, send[s].data)
         /\ UNCHANGED <<lock, callerVars>>
    ELSE IF client # "None"
    THEN /\ lock' = s
         /\ SetSend(s, "disconnecting", send[s].attempt, send[s].data)
         /\ UNCHANGED <<blocked, callerVars>>
    ELSE /\ SetSend(s, "done", send[s].attempt, send[s].data)
         /\ AfterSend(s)
         /\ UNCHANGED <<lock, blocked>>

\* The last attempt of the loop (range(3)).
LastAttempt == 2

\* A send_message that gives up after its last attempt without queueing.
TxDoneDrops(s) ==
    /\ LoopRuns
    /\ send[s].pc = "tx"
    /\ IF sinkUp /\ client = "connected"
       THEN /\ sent' = sent (+) SetToBag({send[s].data})
            /\ SetSend(s, "done", send[s].attempt, send[s].data)
            /\ AfterSend(s)
            /\ UNCHANGED <<message_queue, lock, blocked>>
       ELSE IF send[s].attempt < LastAttempt
       THEN /\ SetSend(s, "backoff", send[s].attempt, send[s].data)
            /\ UNCHANGED <<sent, message_queue, lock, blocked, callerVars>>
       ELSE /\ Teardown(s)
            /\ UNCHANGED <<sent, message_queue>>
    /\ UNCHANGED <<azure, bridge, sinkUp, client, sessions, running, cycles,
                   shutdownPc, replies, db>>

\* await self.client.send_message(msg) completes (97-106).
TxDone(s) ==
    /\ LoopRuns
    /\ send[s].pc = "tx"
    /\ IF sinkUp /\ client = "connected"
       THEN /\ sent' = sent (+) SetToBag({send[s].data})
            /\ SetSend(s, "done", send[s].attempt, send[s].data)
            /\ AfterSend(s)
            /\ UNCHANGED <<message_queue, lock, blocked>>
       ELSE IF send[s].attempt < LastAttempt
       THEN /\ SetSend(s, "backoff", send[s].attempt, send[s].data)
            /\ UNCHANGED <<sent, message_queue, lock, blocked, callerVars>>
       ELSE /\ message_queue' = Append(message_queue, send[s].data)
            /\ Teardown(s)
            /\ UNCHANGED sent
    /\ UNCHANGED <<azure, bridge, sinkUp, client, sessions, running, cycles,
                   shutdownPc, replies, db>>

\* await asyncio.sleep(2 ** attempt) completes; the next attempt starts.
BackoffDone(s) ==
    /\ LoopRuns
    /\ send[s].pc = "backoff"
    /\ BeginAttempt(s, send[s].attempt + 1, send[s].data)
    /\ UNCHANGED <<azure, bridge, sinkUp, sessions, message_queue, running, sent,
                   cycles, shutdownPc, replies, db, callerVars>>

\* await self.client.disconnect() completes; self.client = None (109-110).
DisconnectDone(s) ==
    /\ LoopRuns
    /\ send[s].pc = "disconnecting"
    /\ sessions' = IF client = "connected" THEN sessions - 1 ELSE sessions
    /\ client' = "None"
    /\ lock' = Free
    /\ SetSend(s, "done", send[s].attempt, send[s].data)
    /\ AfterSend(s)
    /\ UNCHANGED <<azure, bridge, sinkUp, message_queue, running, sent, blocked,
                   cycles, shutdownPc, replies, db>>

\* A task created by get_latest (362) gets its first turn on the loop.
TaskStart(t) ==
    /\ LoopRuns
    /\ send[t].pc = "ready"
    /\ BeginAttempt(t, 0, send[t].data)
    /\ UNCHANGED <<azure, bridge, sinkUp, sessions, message_queue, running, sent,
                   cycles, shutdownPc, replies, db, callerVars>>

\* A drain loop that never looks at running.
DrainWakeAlways ==
    /\ LoopRuns
    /\ azure
    /\ drainPc = "sleep"
    /\ IF message_queue # <<>>
       THEN /\ message_queue' = Tail(message_queue)
            /\ BeginAttempt(Drain, 0, Head(message_queue))
            /\ drainPc' = "send"
            /\ UNCHANGED <<sessions, running, sent, poll, threads,
                           websocket_clients, ws>>
       ELSE UNCHANGED <<dmVars, callerVars>>
    /\ UNCHANGED <<azure, bridge, sinkUp, cycles, shutdownPc, replies, db>>

\* A drain loop that takes the newest entry.
DrainWakeNewest ==
    /\ LoopRuns
    /\ azure
    /\ drainPc = "sleep"
    /\ IF ~running
       THEN /\ drainPc' = "stopped"
            /\ UNCHANGED <<dmVars, poll, threads, websocket_clients, ws>>
       ELSE IF message_queue # <<>>
       THEN /\ message_queue' = SubSeq(message_queue, 1, Len(message_queue) - 1)
            /\ BeginAttempt(Drain, 0, message_queue[Len(message_queue)])
            /\ drainPc' = "send"
            /\ UNCHANGED <<sessions, running, sent, poll, threads,
                           websocket_clients, ws>>
       ELSE UNCHANGED <<dmVars, callerVars>>
    /\ UNCHANGED <<azure, bridge, sinkUp, cycles, shutdownPc, replies, db>>

\* process_queue wakes from its sleep (113-120).
DrainWake ==
    /\ LoopRuns
    /\ azure
    /\ drainPc = "sleep"
    /\ IF ~running
       THEN /\ drainPc' = "stopped"
            /\ UNCHANGED <<dmVars, poll, threads, websocket_clients, ws>>
       ELSE IF message_queue # <<>>
       THEN /\ message_queue' = Tail(message_queue)
            /\ BeginAttempt(Drain, 0, Head(message_queue))
            /\ drainPc' = "send"
            /\ UNCHANGED <<sessions, running, sent, poll, threads,
                           websocket_clients, ws>>
       ELSE UNCHANGED <<dmVars, callerVars>>
    /\ UNCHANGED <<azure, bridge, sinkUp, cycles, shutdownPc, replies, db>>

\* shutdown() (122-128), called by lifespan when the server stops.
ShutdownStart ==
    /\ LoopRuns
    /\ shutdownPc = "idle"
    /\ running' = FALSE
    /\ IF lock # Free
       THEN /\ blocked' = Shutdown
            /\ shutdownPc' = "lock_shutdown"
            /\ UNCHANGED lock
       ELSE IF client # "None"
       THEN /\ lock' = Shutdown
            /\ shutdownPc' = "disconnecting"
            /\ UNCHANGED blocked
       ELSE /\ shutdownPc' = "done"
            /\ UNCHANGED <<lock, blocked>>
    /\ UNCHANGED <<azure, bridge, sinkUp, client, sessions, message_queue, sent,
                   send, cycles, replies, db, callerVars>>

ShutdownDone ==
    /\ LoopRuns
    /\ shutdownPc = "disconnecting"
    /\ sessions' = IF client = "connected" THEN sessions - 1 ELSE sessions
    /\ client' = "None"
    /\ lock' = Free
    /\ shutdownPc' = "done"
    /\ UNCHANGED <<azure, bridge, sinkUp, message_queue, running, sent, send,
                   blocked, cycles, replies, db, callerVars>>

\* The hub becomes unreachable, or reachable again.
SinkFlip ==
    /\ sinkUp' = ~sinkUp
    /\ UNCHANGED <<azure, bridge, dmVars, cycles, shutdownPc, replies, db,
                   callerVars>>

\* The session of the current client drops while the hub is unreachable
\* (client.connected turns False).
ConnectionLost ==
    /\ ~sinkUp
    /\ client = "connected"
    /\ client' = "dropped"
    /\ sessions' = sessions - 1
    /\ UNCHANGED <<azure, bridge, sinkUp, lock, message_queue, running, sent, send,
                   blocked, cycles, shutdownPc, replies, db, callerVars>>

(***************************************************************************)
(* fetch_and_upload: one cycle up to its first await.                      *)
(***************************************************************************)
PollOutcome(o) ==
    IF o.kind = "ok"
    THEN /\ poll' = [pc |-> "send", data |-> Reading(o, Stamp("poll", cycles + 1)),
                  snap |-> {}, todo |-> {}]
         /\ BeginAttempt(Poll, 0, Reading(o, Stamp("poll", cycles + 1)))
    ELSE \* logged; await asyncio.sleep(10); continue
         UNCHANGED <<poll, client, lock, blocked, send>>

PollCycle ==
    /\ LoopRuns
    /\ azure
    /\ poll.pc = "sleep"
    /\ cycles < MaxCycles
    /\ cycles' = cycles + 1
    /\ \E r \in bridge : PollOutcome(PollParsed[r])
    /\ UNCHANGED <<azure, bridge, sinkUp, sessions, message_queue, running, sent,
                   drainPc, shutdownPc, replies, db, threads, websocket_clients, ws>>

\* A broadcast that keeps a client whose push raised.
PollPushKeeps(c) ==
    /\ LoopRuns
    /\ poll.pc = "broadcast"
    /\ c \in poll.todo
    /\ ws' = IF ws[c].conn = "open"
             THEN [ws EXCEPT ![c].received = Append(@, poll.data)]
             ELSE ws
    /\ poll' = [poll EXCEPT !.todo = @ \ {c},
                            !.pc = IF poll.todo = {c} THEN "sleep" ELSE "broadcast"]
    /\ UNCHANGED <<azure, bridge, sinkUp, dmVars, cycles, drainPc, shutdownPc,
                   replies, threads, db, websocket_clients>>

\* await client.send_json(data) completes for one client of the snapshot
\* (230-235): the push arrives, or it raised and the client is discarded.
PollPush(c) ==
    /\ LoopRuns
    /\ poll.pc = "broadcast"
    /\ c \in poll.todo
    /\ IF ws[c].conn = "open"
       THEN /\ ws' = [ws EXCEPT ![c].received = Append(@, poll.data)]
            /\ UNCHANGED websocket_clients
       ELSE /\ websocket_clients' = websocket_clients \ {c}
            /\ UNCHANGED ws
    /\ poll' = [poll EXCEPT !.todo = @ \ {c},
                            !.pc = IF poll.todo = {c} THEN "sleep" ELSE "broadcast"]
    /\ UNCHANGED <<azure, bridge, sinkUp, dmVars, cycles, drainPc, shutdownPc,
                   replies, threads, db>>

(***************************************************************************)
(* get_latest: the whole handler (it awaits nothing).                      *)
(***************************************************************************)
Null == "null"

ErrorPayload_(error) ==
    [temperature |-> Null, humidity |-> Null, light |-> Null, distance |-> Null,
     timestamp |-> Null, error |-> error]

\* A get_latest that starts the write and the task before it looks at
\* what it parsed.
LatestOutcomeEager(o, t, n) ==
    /\ send' = [send EXCEPT ![t] = [pc |-> "ready", attempt |-> 0,
                                   data |-> [timestamp |-> Stamp("latest", n)]]]
    /\ threads' = Append(threads, NewThread([temperature |-> Null, humidity |-> Null,
                                             light |-> Null, distance |-> Null,
                                             timestamp |-> Stamp("latest", n)]))
    /\ replies' = Append(replies, IF o.kind = "ok"
                                  THEN Reading(o, Stamp("latest", n))
                                  ELSE ErrorPayload_(o.error))

\* The reading: a task for send_message when the hub is configured, a
\* save_to_db thread, and the reading as the payload (351-365); or the
\* error payload.
LatestOutcome(o, t, n) ==
    IF o.kind = "ok"
    THEN /\ send' = IF azure
                    THEN [send EXCEPT ![t] = [pc |-> "ready", attempt |-> 0,
                                              data |-> Reading(o, Stamp("latest", n))]]
                    ELSE send
         /\ threads' = Append(threads, NewThread(Reading(o, Stamp("latest", n))))
         /\ replies' = Append(replies, Reading(o, Stamp("latest", n)))
    ELSE /\ replies' = Append(replies, ErrorPayload_(o.error))
         /\ UNCHANGED <<send, threads>>

\* The send_message tasks created so far.
TasksUsed == Cardinality({t \in Tasks : send[t] # Idle})

GetLatest ==
    /\ LoopRuns
    /\ Len(replies) < MaxRequests
    /\ \E r \in bridge :
         /\ (azure /\ LatestParsed[r].kind = "ok") => TasksUsed < MaxTasks
         /\ LatestOutcome(LatestParsed[r], Task(TasksUsed + 1), Len(replies) + 1)
    /\ UNCHANGED <<azure, bridge, sinkUp, client, sessions, lock, message_queue,
                   running, sent, blocked, poll, cycles, drainPc, shutdownPc, db,
                   websocket_clients, ws>>

(***************************************************************************)
(* websocket_endpoint, one coroutine per subscriber.                       *)
(***************************************************************************)
\* accept() completed: the socket joins the set and waits for text (265-269).
WsOpen(c) ==
    /\ LoopRuns
    /\ ws[c].conn = "new"
    /\ ws' = [ws EXCEPT ![c].conn = "open"]
    /\ websocket_clients' = websocket_clients \cup {c}
    /\ UNCHANGED <<azure, bridge, sinkUp, dmVars, poll, cycles, drainPc, shutdownPc,
                   replies, threads, db>>

\* The peer goes away.
WsDrop(c) ==
    /\ ws[c].conn = "open"
    /\ ws' = [ws EXCEPT ![c].conn = "broken"]
    /\ UNCHANGED <<azure, bridge, sinkUp, dmVars, poll, cycles, drainPc, shutdownPc,
                   replies, threads, db, websocket_clients>>

\* receive_text() raises; finally: discard (270-273).
WsClose(c) ==
    /\ LoopRuns
    /\ ws[c].conn = "broken"
    /\ ws' = [ws EXCEPT ![c].conn = "ended"]
    /\ websocket_clients' = websocket_clients \ {c}
    /\ UNCHANGED <<azure, bridge, sinkUp, dmVars, poll, cycles, drainPc, shutdownPc,
                   replies, threads, db>>

(***************************************************************************)
(* save_to_db, one thread per call.  THRESHOLDS: temperature and humidity  *)
(* are in tenths here, so 30.0 is 300 and 20.0 is 200.                     *)
(***************************************************************************)
temp_high == 300
humidity_low == 200
distance_close == 10

\* x > c and x < c for a float that may be inf or nan.
Gt(x, c) == IF x.kind = "inf" THEN ~x.neg ELSE x.kind = "num" /\ x.v > c

Lt(x, c) == IF x.kind = "inf" THEN x.neg ELSE x.kind = "num" /\ x.v < c

Alert(rule, value) == [message |-> <<rule, value>>]

\* An alert derivation that stops at the first rule that fires.
AlertsChained(temp, hum, dist) ==
    IF Gt(temp, temp_high) THEN <<Alert("High temperature", temp)>>
    ELSE IF Lt(hum, humidity_low) THEN <<Alert("Low humidity", hum)>>
    ELSE IF dist > 0 /\ dist < distance_close THEN <<Alert("Motion detected", dist)>>
    ELSE <<>>

\* The alerts list of lines 141-147.
Alerts(temp, hum, dist) ==
    (IF Gt(temp, temp_high) THEN <<Alert("High temperature", temp)>> ELSE <<>>)
    \o (IF Lt(hum, humidity_low) THEN <<Alert("Low humidity", hum)>> ELSE <<>>)
    \o (IF dist > 0 /\ dist < distance_close
        THEN <<Alert("Motion detected", dist)>> ELSE <<>>)

\* What one attempt adds to its session before it commits (138-151).
AlertObjects(alerts) ==
    [i \in 1..Len(alerts) |-> [table |-> "alerts", message |-> alerts[i].message]]

SessionAdds(t) ==
    <<[table |-> "sensor_data", temperature |-> t.temp, humidity |-> t.hum,
       light |-> t.light, distance |-> t.dist]>>
    \o AlertObjects(Alerts(t.temp, t.hum, t.dist))

WBegin(w) ==
    /\ threads[w].pc = "begin"
    /\ threads' = [threads EXCEPT ![w].pc = "commit",
                                  ![w].session = SessionAdds(threads[w])]
    /\ UNCHANGED <<azure, bridge, sinkUp, dmVars, poll, cycles, drainPc, shutdownPc,
                   replies, db, websocket_clients, ws>>

\* A committed transaction: every object of the session becomes a row, with
\* the next id of its table.  `of` names the save_to_db call the row is from.
RECURSIVE Insert(_, _, _)
Insert(d, objs, w) ==
    IF objs = <<>> THEN d
    ELSE LET o == Head(objs) IN
         IF o.table = "sensor_data"
         THEN Insert([d EXCEPT !.sensor_data =
                        Append(@, [id |-> Len(@) + 1, temperature |-> o.temperature,
                                   humidity |-> o.humidity, light |-> o.light,
                                   distance |-> o.distance, of |-> w])],
                     Tail(objs), w)
         ELSE Insert([d EXCEPT !.alerts =
                        Append(@, [id |-> Len(@) + 1, message |-> o.message,
                                   of |-> w])],
                     Tail(objs), w)

\* How session.commit() can end: it commits, or it raises.  What it raises
\* has a class and a text.  The session is SQLAlchemy's (lines 4-5, 27-29),
\* which reports the driver's errors as its own sqlalchemy.exc classes, the
\* driver's text inside; sqlite3's own class is what the first except clause
\* names.  "locked" is a text with "locked" in it, "error" one without.
Raises(cls, text) == [cls |-> cls, text |-> text]

Committed == Raises("none", "ok")

CommitOutcomes ==
    {Committed,
     Raises("sqlite3.OperationalError", "locked"),
     Raises("sqlite3.OperationalError", "error"),
     Raises("sqlalchemy.exc.OperationalError", "locked"),
     Raises("Exception", "error")}

\* session.commit() (153) and, when it raised, the except clause entered.
WCommit(w) ==
    /\ threads[w].pc = "commit"
    /\ \E outcome \in CommitOutcomes :
         IF outcome = Committed
         THEN /\ db' = Insert(db, threads[w].session, w)
              /\ threads' = [threads EXCEPT ![w].pc = "returned",
                                            ![w].session = <<>>,
                                            ![w].hist = Append(@, outcome)]
         ELSE /\ threads' = [threads EXCEPT ![w].pc = "except",
                                            ![w].err = outcome.text,
                                            ![w].cls = outcome.cls,
                                            ![w].dirty = TRUE,
                                            ![w].hist = Append(@, outcome)]
              /\ UNCHANGED db
    /\ UNCHANGED <<azure, bridge, sinkUp, dmVars, poll, cycles, drainPc, shutdownPc,
                   replies, websocket_clients, ws>>

\* Whether the write goes on to another attempt: the exception is caught
\* by the first except clause (156), its text has "locked" in it and an
\* attempt is left (159).
Retries(t) ==
    t.cls = "sqlite3.OperationalError" /\ t.err = "locked" /\ t.attempt < 2

\* An except clause that leaves the failed transaction as it is.
WExceptNoRollback(w) ==
    /\ threads[w].pc = "except"
    /\ threads' = [threads EXCEPT ![w].pc = IF Retries(threads[w]) THEN "sleep"
                                            ELSE "raised"]
    /\ UNCHANGED <<azure, bridge, sinkUp, dmVars, poll, cycles, drainPc, shutdownPc,
                   replies, db, websocket_clients, ws>>

\* Either except clause (156-166): session.rollback(), then sleep and
\* continue, or raise; finally: session.close() (167-168).
WExcept(w) ==
    /\ threads[w].pc = "except"
    /\ threads' = [threads EXCEPT ![w].pc = IF Retries(threads[w]) THEN "sleep"
                                            ELSE "raised",
                                  ![w].session = <<>>,
                                  ![w].dirty = FALSE]
    /\ UNCHANGED <<azure, bridge, sinkUp, dmVars, poll, cycles, drainPc, shutdownPc,
                   replies, db, websocket_clients, ws>>

\* time.sleep(0.5) is over; the next attempt.
WRetry(w) ==
    /\ threads[w].pc = "sleep"
    /\ threads' = [threads EXCEPT ![w].pc = "begin", ![w].attempt = @ + 1]
    /\ UNCHANGED <<azure, bridge, sinkUp, dmVars, poll, cycles, drainPc, shutdownPc,
                   replies, db, websocket_clients, ws>>

(***************************************************************************)
(* The system.                                                             *)
(***************************************************************************)
InitWith(az, br) ==
    /\ azure = az
    /\ bridge = br
    /\ sinkUp \in BOOLEAN
    /\ client = "None"
    /\ sessions = 0
    /\ lock = Free
    /\ message_queue = <<>>
    /\ running = TRUE
    /\ sent = EmptyBag
    /\ send = [s \in Senders |-> Idle]
    /\ blocked = NoTask
    /\ poll = [pc |-> "sleep", data |-> NoData, snap |-> {}, todo |-> {}]
    /\ cycles = 0
    /\ drainPc = "sleep"
    /\ shutdownPc = "idle"
    /\ replies = <<>>
    /\ threads = <<>>
    /\ db = [sensor_data |-> <<>>, alerts |-> <<>>]
    /\ websocket_clients = {}
    /\ ws = [c \in Clients |-> [conn |-> "new", received |-> <<>>]]

Init == \E az \in BOOLEAN : InitWith(az, AllResponses)

DeliveryNext ==
    \/ PollCycle
    \/ GetLatest
    \/ DrainWake
    \/ \E s \in Senders : ConnectDone(s)
    \/ \E s \in Senders : TxDone(s)
    \/ \E s \in Senders : BackoffDone(s)
    \/ \E s \in Senders : DisconnectDone(s)
    \/ \E t \in Tasks : TaskStart(t)
    \/ ShutdownStart
    \/ ShutdownDone
    \/ SinkFlip
    \/ ConnectionLost

FanoutNext ==
    \/ \E c \in Clients : PollPush(c)
    \/ \E c \in Clients : WsOpen(c)
    \/ \E c \in Clients : WsDrop(c)
    \/ \E c \in Clients : WsClose(c)

WriterNext ==
    \/ \E w \in 1..Len(threads) : WBegin(w)
    \/ \E w \in 1..Len(threads) : WCommit(w)
    \/ \E w \in 1..Len(threads) : WExcept(w)
    \/ \E w \in 1..Len(threads) : WRetry(w)

Next == DeliveryNext \/ FanoutNext \/ WriterNext

Spec == Init /\ [][Next]_vars

\* The delivery manager and the coroutines that use it, with one reading
\* the bridge can give and one line it rejects.  The save_to_db threads and
\* the websockets, which read and write nothing of the manager, stand still.
DeliveryInit == InitWith(TRUE, {"hot", "garbage"})

DeliverySpec == DeliveryInit /\ [][DeliveryNext]_vars

\* The server with no hub configured: lifespan starts neither loop, and
\* what runs is the requests, their save_to_db threads and the websockets.
ServeInit == InitWith(FALSE, {"hot", "calm", "garbage"})

ServeNext ==
    \/ GetLatest
    \/ \E c \in Clients : WsOpen(c)
    \/ \E c \in Clients : WsDrop(c)
    \/ \E c \in Clients : WsClose(c)
    \/ WriterNext

ServeSpec == ServeInit /\ [][ServeNext]_vars

\* The poll loop and the websockets: every cycle's broadcast with
\* subscribers that come, break and go while it runs.
FanoutInit == InitWith(TRUE, {"hot", "garbage"})

PollAndSocketsNext ==
    \/ PollCycle
    \/ ConnectDone(Poll)
    \/ TxDone(Poll)
    \/ BackoffDone(Poll)
    \/ DisconnectDone(Poll)
    \/ SinkFlip
    \/ FanoutNext

FanoutSpec == FanoutInit /\ [][PollAndSocketsNext]_vars

\* The save_to_db threads of requests that read values on, at and around
\* each threshold.
AlertInit ==
    InitWith(FALSE, {"hot", "calm", "edge", "fracdist", "dry", "warmnear",
                     "justover", "inftemp"})

RequestAndWriterNext == GetLatest \/ WriterNext

AlertSpec == AlertInit /\ [][RequestAndWriterNext]_vars

\* Both paths from the bridge's response to the database, the hub and the
\* subscribers, the hub reachable or not, with a reading, lines that are
\* out of range, a line that is not numeric and an HTTP error.
PipelineInit ==
    InitWith(TRUE, {"calm", "negfraclight", "negdist", "nantemp", "word", "http500"})

PipelineNext ==
    \/ PollCycle
    \/ GetLatest
    \/ ConnectDone(Poll)
    \/ TxDone(Poll)
    \/ \E c \in Clients : PollPush(c)
    \/ \E c \in Clients : WsOpen(c)
    \/ \E w \in 1..Len(threads) : WBegin(w)
    \/ \E w \in 1..Len(threads) : WCommit(w)

PipelineSpec == PipelineInit /\ [][PipelineNext]_vars

\* What each path makes of a response, up to its first await: lines with
\* a negative or NaN value among them.
IntakeInit ==
    InitWith(TRUE, {"negdist", "negfraclight", "negfracdist", "nantemp", "nanhum",
                    "word"})

IntakeNext == PollCycle \/ GetLatest

IntakeSpec == IntakeInit /\ [][IntakeNext]_vars

\* The requests and the send_message tasks they create, the bridge failing
\* in every way get_latest tells apart.
RequestInit ==
    InitWith(TRUE, {"calm", "garbage", "fivefields", "nolabel", "word", "negdist",
                    "nantemp", "upstream", "badjson", "http500", "neterr"})

RequestNext ==
    \/ GetLatest
    \/ \E t \in Tasks : TaskStart(t)
    \/ \E t \in Tasks : ConnectDone(t)
    \/ \E t \in Tasks : TxDone(t)
    \/ \E t \in Tasks : BackoffDone(t)
    \/ \E t \in Tasks : DisconnectDone(t)
    \/ SinkFlip

RequestSpec == RequestInit /\ [][RequestNext]_vars

\* The two loops lifespan starts, with no request and no stop of the server
\* (both are the environment's to make, or not).
LoopsNext ==
    \/ PollCycle
    \/ DrainWake
    \/ \E s \in {Poll, Drain} : ConnectDone(s)
    \/ \E s \in {Poll, Drain} : TxDone(s)
    \/ \E s \in {Poll, Drain} : BackoffDone(s)
    \/ \E s \in {Poll, Drain} : DisconnectDone(s)
    \/ SinkFlip
    \/ ConnectionLost

\* One step of sender s inside send_message: the await it is at is over.
SendStep(s) == ConnectDone(s) \/ TxDone(s) \/ BackoffDone(s) \/ DisconnectDone(s)

\* The event loop resumes every coroutine whose await is over: a sleep
\* ends, and a call into the hub's client returns or raises.  The state of
\* the hub is the environment's.
LoopsFairness ==
    /\ WF_vars(PollCycle)
    /\ WF_vars(DrainWake)
    /\ WF_vars(SendStep(Poll))
    /\ WF_vars(SendStep(Drain))

LoopsLive == DeliveryInit /\ [][LoopsNext]_vars /\ LoopsFairness

(***************************************************************************)
(* Properties.                                                             *)
(***************************************************************************)
Count(q, d) == Cardinality({i \in 1..Len(q) : q[i] = d})

InFlight(s) ==
    send[s].pc \in {"lock_connect", "connecting", "tx", "backoff", "lock_teardown",
                    "disconnecting"}

\* The step in which sender s's await of client.connect() ends in failure.
ConnectFails(s) == send[s].pc = "connecting" /\ ~sinkUp /\ send'[s] # send[s]

\* C1: when establishing the connection fails inside a send_message
\* invocation, that very step appends the reading to the queue, where it
\* then is exactly once, and ends the invocation: nothing is transmitted,
\* no client is left, and the invocation is not in any later attempt.
C1_ConnectFailureQueuesOnce ==
    [][\A s \in Senders :
         ConnectFails(s) =>
           /\ message_queue' = Append(message_queue, send[s].data)
           /\ Count(message_queue', send[s].data) = 1
           /\ send'[s].pc = "done"
           /\ send'[s].attempt = send[s].attempt
           /\ sent' = sent
           /\ client' = "None"
           /\ blocked' = NoTask]_vars

\* The poll loop's send ended on its first attempt with its reading queued
\* and nothing transmitted: the connection could not be established.
C1_Witness ==
    /\ send[Poll].pc = "done"
    /\ send[Poll].attempt = 0
    /\ Count(message_queue, send[Poll].data) = 1
    /\ sent = EmptyBag

\* C3: at most one live session exists, it is the one of the manager's
\* client, and every step that changes the client (creating it, marking it
\* connected, clearing it) is taken by the holder of the lock.  A session
\* that drops is the hub's doing, not a change the manager makes.
C3_OneHandleUnderLock ==
    /\ [](sessions <= 1 /\ (sessions = 1 <=> client = "connected"))
    /\ [][(client' # client /\ client' # "dropped") =>
            (lock # Free \/ lock' # Free)]_vars

\* Two invocations transmit over the one live client at the same time,
\* the lock free.
C3_Witness ==
    /\ sessions = 1
    /\ send[Poll].pc = "tx"
    /\ send[Drain].pc = "tx"
    /\ lock = Free

\* C4: no coroutine ever waits for the manager's lock while its holder
\* cannot go on.  (The holder is a coroutine suspended at an await of the
\* loop whose only thread the waiter blocks.)
C4_NoLockDeadlock == \A s \in Senders : ~(blocked = s /\ lock # Free /\ lock # s)

Stamps ==
    {Stamp("poll", n) : n \in 1..MaxCycles} \cup {Stamp("latest", n) : n \in 1..MaxRequests}

InQueue(k) == \E i \in 1..Len(message_queue) : message_queue[i].timestamp = k

Delivered(k) == \E d \in BagToSet(sent) : d.timestamp = k

\* C2: a reading in the queue is eventually delivered and out of the
\* queue, if the manager stays active and from some point on the hub can
\* always be reached (connecting and transmitting succeed).
C2_DrainDelivers ==
    \A k \in Stamps :
      [](InQueue(k) =>
           (([]running /\ <>[]sinkUp) => <>(Delivered(k) /\ ~InQueue(k))))

\* C8: the poll loop always goes on to its next cycle, whatever the cycle
\* before it ran into (up to the cycles of this model).
C8_PollLoopGoesOn ==
    \A n \in 0..(MaxCycles - 1) : (cycles = n) ~> (cycles = n + 1)

(***************************************************************************)
(* save_to_db's rows.                                                      *)
(***************************************************************************)
ReadingRows(w) == {i \in 1..Len(db.sensor_data) : db.sensor_data[i].of = w}

AlertRows(w) == {i \in 1..Len(db.alerts) : db.alerts[i].of = w}

Derived(w) == Alerts(threads[w].temp, threads[w].hum, threads[w].dist)

\* The reading of write w is there once, and each of its alerts once.
SavedOnce(w) ==
    /\ Cardinality(ReadingRows(w)) = 1
    /\ \A i \in ReadingRows(w) :
         /\ db.sensor_data[i].temperature = threads[w].temp
         /\ db.sensor_data[i].humidity = threads[w].hum
         /\ db.sensor_data[i].light = threads[w].light
         /\ db.sensor_data[i].distance = threads[w].dist
    /\ Cardinality(AlertRows(w)) = Len(Derived(w))
    /\ \A k \in 1..Len(Derived(w)) :
         Cardinality({i \in AlertRows(w) : db.alerts[i].message = Derived(w)[k].message}) = 1

NothingSaved(w) == ReadingRows(w) = {} /\ AlertRows(w) = {}

Ended(t) == t.pc \in {"returned", "raised"}

\* The store was locked (whatever the class it is reported with).
Contended(e) == e.text = "locked"

\* The commits a write has made are those of a store that is locked for
\* its first two commits and free for its third.
LockedTwiceThenFree(h) ==
    /\ Len(h) \in 1..3
    /\ \A i \in 1..Len(h) : IF i <= 2 THEN Contended(h[i]) ELSE h[i] = Committed

\* C5: a write that has ended, against a store that was locked for its
\* first two commits and free for the third, has persisted its reading
\* exactly once and each derived alert exactly once: nothing is left of the
\* failed attempts and nothing is duplicated.
C5_LockedTwiceThenSaved ==
    \A w \in 1..Len(threads) :
      (Ended(threads[w]) /\ LockedTwiceThenFree(threads[w].hist)) => SavedOnce(w)

\* C6: in every state, each write has persisted its reading together with
\* all of its alerts, or nothing at all; and a write that starts an
\* attempt, sleeps before one, or has ended holds no failed transaction
\* that is not rolled back.
C6_NeverPartial ==
    \A w \in 1..Len(threads) :
      /\ SavedOnce(w) \/ NothingSaved(w)
      /\ threads[w].pc \in {"begin", "sleep", "returned", "raised"} => ~threads[w].dirty

\* Two writes at once: the second has committed its reading and alerts
\* while the first, one failed attempt rolled back, is in its second commit.
C6_Witness ==
    /\ Len(threads) = 2
    /\ threads[1].pc = "commit" /\ threads[1].attempt = 1 /\ NothingSaved(1)
    /\ threads[2].pc = "returned" /\ Len(Derived(2)) = 3 /\ SavedOnce(2)

\* C7: a write makes at most three commits; it sleeps before another
\* attempt only after a locked store and with an attempt left; and it gives
\* up, nothing of it persisted, only on its third locked commit or on a
\* failure that is not a locked store.
C7_RetryPolicy ==
    \A w \in 1..Len(threads) :
      /\ Len(threads[w].hist) <= 3
      /\ threads[w].pc = "sleep" =>
           /\ Contended(threads[w].hist[Len(threads[w].hist)])
           /\ Len(threads[w].hist) < 3
      /\ threads[w].pc = "raised" =>
           /\ NothingSaved(w)
           /\ \/ Len(threads[w].hist) = 3
              \/ ~Contended(threads[w].hist[Len(threads[w].hist)])

\* C9: while the poll loop's send_message invocation is under way (in a
\* connection attempt, a transmission, a backoff wait or a teardown), the
\* save_to_db thread of that cycle's reading has been started.
C9_PollDoesNotWaitForSend ==
    InFlight(Poll) =>
      \E w \in 1..Len(threads) : threads[w].of = send[Poll].data.timestamp

\* The reading a successful poll cycle would make of response r is the one
\* get_latest makes of it, and both fail on the same responses.
SameOutcome(r) ==
    IF PollParsed[r].kind = "ok"
    THEN LatestParsed[r] = PollParsed[r]
    ELSE LatestParsed[r].kind # "ok"

\* get_latest returns a reading in this step.
Served ==
    /\ Len(replies') = Len(replies) + 1
    /\ "error" \notin DOMAIN replies'[Len(replies')]

\* C10: get_latest and the poll cycle make the same of every response, and
\* when get_latest returns a reading it has started that reading's
\* save_to_db thread, has created its send_message task if the hub is
\* configured, and has pushed it to every subscribed websocket that is open.
C10_SamePipeline ==
    [][/\ \A r \in AllResponses : SameOutcome(r)
       /\ Served =>
            /\ Len(threads') = Len(threads) + 1
            /\ threads'[Len(threads')].of = replies'[Len(replies')].timestamp
            /\ azure => \E t \in Tasks : send'[t].data = replies'[Len(replies')]
            /\ \A c \in websocket_clients :
                 ws[c].conn = "open" =>
                   replies'[Len(replies')] \in {ws'[c].received[i] :
                                                 i \in 1..Len(ws'[c].received)}]_vars

Received(c) == {ws[c].received[i] : i \in 1..Len(ws[c].received)}

\* C11: the broadcast pushes to the snapshot it took: a push to an open
\* socket arrives, a push that raises discards that socket and no other,
\* and the sockets that join or leave meanwhile change nothing of it; when
\* the broadcast has ended, every socket of the snapshot has the reading
\* or is out of the set.
C11_BroadcastOnSnapshot ==
    /\ [](poll.pc = "sleep" =>
            \A c \in poll.snap : poll.data \in Received(c) \/ c \notin websocket_clients)
    /\ [](poll.pc = "broadcast" =>
            \A c \in poll.snap \ poll.todo :
               poll.data \in Received(c) \/ c \notin websocket_clients)
    /\ [][poll.pc = "broadcast" /\ poll'.todo # poll.todo =>
            \E c \in poll.todo :
              /\ poll'.todo = poll.todo \ {c}
              /\ poll'.snap = poll.snap
              /\ IF ws[c].conn = "open"
                 THEN poll.data \in {ws'[c].received[i] : i \in 1..Len(ws'[c].received)}
                      /\ websocket_clients' = websocket_clients
                 ELSE websocket_clients' = websocket_clients \ {c}
              /\ \A d \in Clients \ {c} : ws'[d] = ws[d]]_vars

\* A broadcast has ended whose snapshot held both sockets: the push to
\* the first raised and it is out of the set, the second has the reading.
C11_Witness ==
    /\ poll.pc = "sleep"
    /\ poll.snap = {1, 2}
    /\ poll.data \notin Received(1) /\ 1 \notin websocket_clients
    /\ poll.data \in Received(2) /\ 2 \in websocket_clients

\* The values of a save_to_db call, as numbers in tenths and units.
Tenths(n) == [kind |-> "num", v |-> n]

Called(w, temp, hum, dist) ==
    threads[w].temp = Tenths(temp) /\ threads[w].hum = Tenths(hum) /\ threads[w].dist = dist

\* The alerts an attempt has added to its session, after the reading.
Added(w) == [i \in 1..(Len(threads[w].session) - 1) |-> threads[w].session[i + 1].message]

\* One rule: its alert, carrying the value, iff its condition holds.
Rule(holds, name, value) == IF holds THEN <<<<name, value>>>> ELSE <<>>

\* C12: the alerts an attempt adds for its reading are the high
\* temperature alert iff temperature > 30.0, then the low humidity alert
\* iff humidity < 20.0, then the motion alert iff 0 < distance < 10, each
\* rule by itself; (31.5, 18.2, 5) gives all three, (22.0, 45.0, 0) none,
\* distance 10 no motion alert; and equal values give equal lists.
C12_AlertDerivation ==
    \A w \in 1..Len(threads) :
      threads[w].pc = "commit" =>
        /\ Added(w) =
             Rule(Gt(threads[w].temp, 300), "High temperature", threads[w].temp)
             \o Rule(Lt(threads[w].hum, 200), "Low humidity", threads[w].hum)
             \o Rule(0 < threads[w].dist /\ threads[w].dist < 10,
                     "Motion detected", threads[w].dist)
        /\ Called(w, 315, 182, 5) =>
             Added(w) = << <<"High temperature", Tenths(315)>>,
                           <<"Low humidity", Tenths(182)>>,
                           <<"Motion detected", 5>> >>
        /\ Called(w, 220, 450, 0) => Added(w) = <<>>
        /\ threads[w].dist \in {0, 10} =>
             \A i \in 1..Len(Added(w)) : Added(w)[i][1] # "Motion detected"
        /\ \A x \in 1..Len(threads) :
             (/\ threads[x].pc = "commit"
              /\ threads[x].temp = threads[w].temp
              /\ threads[x].hum = threads[w].hum
              /\ threads[x].dist = threads[w].dist) => Added(x) = Added(w)

\* Two attempts about to commit: one for (31.5, 18.2, 5) with its three
\* alerts, one for (31.5, 45.0, 10) with the temperature alert alone.
C12_Witness ==
    /\ Len(threads) = 2
    /\ threads[1].pc = "commit" /\ Called(1, 315, 182, 5) /\ Len(Added(1)) = 3
    /\ threads[2].pc = "commit" /\ Called(2, 315, 450, 10) /\ Len(Added(2)) = 1

\* The four numeric substrings of a response's line as float() reads
\* them, or <<>> when the line has not four labelled fields.
FieldStrs(parts) ==
    IF Len(parts) # 4 THEN <<>> ELSE [i \in 1..4 |-> NumStr(parts[i])]

FieldFloats(strs) ==
    IF strs = <<>> \/ \E i \in 1..4 : strs[i].kind # "str" THEN <<>>
    ELSE [i \in 1..4 |-> float(strs[i].s)]

Floats(r) ==
    IF ~Responses[r].net \/ Responses[r].status # 200 THEN <<>>
    ELSE FieldFloats(FieldStrs(Split(Strip(Strip(Responses[r].text, Whitespace),
                                           {"\""}), Sep)))

\* All four substrings are numbers, and light or distance is below 0 or
\* temperature or humidity is NaN.
OutOfRange(f) ==
    /\ f # <<>>
    /\ \A i \in 1..4 : f[i].kind # "ValueError"
    /\ isnan(f[1]) \/ isnan(f[2]) \/ Lt(f[3], 0) \/ Lt(f[4], 0)

Values(d) == <<d.temperature, d.humidity, d.light, d.distance>>

FromPoll(r) == Values(Reading(PollParsed[r], NoData.timestamp))

FromLatest(r) == Values(Reading(LatestParsed[r], NoData.timestamp))

\* The lines of the bridge that are not out of range, and what get_latest
\* answers to them: readings and errors.
InRange == {r \in bridge : ~OutOfRange(Floats(r))}

InRangeReadings == {FromLatest(r) : r \in {x \in InRange : LatestParsed[x].kind = "ok"}}

InRangeErrors == {LatestParsed[r].error : r \in {x \in InRange : LatestParsed[x].kind # "ok"}}

\* C13: a line whose four numeric substrings are numbers, with light or
\* distance below 0 or temperature or humidity NaN, fails validation in
\* fetch_and_upload and in get_latest and no reading is made of it: every
\* reading a cycle or a request has made is that of a line in range, and
\* every other answer of get_latest is that of a line in range or the
\* "Invalid sensor values" error.
C13_OutOfRangeRejected ==
    /\ poll.pc = "send" =>
         \E r \in bridge :
           /\ ~OutOfRange(Floats(r))
           /\ PollParsed[r].kind = "ok" /\ Values(poll.data) = FromPoll(r)
    /\ \A i \in 1..Len(replies) :
         IF "error" \in DOMAIN replies[i]
         THEN replies[i].error \in InRangeErrors \cup {Text("Invalid sensor values")}
         ELSE Values(replies[i]) \in InRangeReadings

\* The error get_latest is to answer with, by the bridge's response.
ErrorOf ==
    "garbage" :> Text("Invalid data format")
    @@ "fivefields" :> Text("Invalid data format")
    @@ "nolabel" :> Text("Parse error")
    @@ "word" :> Text("Parse error")
    @@ "negdist" :> Text("Invalid sensor values")
    @@ "nantemp" :> Text("Invalid sensor values")
    @@ "upstream" :> <<"n", "o", " ", "d", "a", "t", "a">>
    @@ "badjson" :> Text("Unexpected error")
    @@ "http500" :> Text("Bridge HTTP error")
    @@ "neterr" :> Text("Network error")

IsError(reply) == "error" \in DOMAIN reply

Readings(seq) == {i \in 1..Len(seq) : ~IsError(seq[i])}

\* C14: get_latest answers each response that fails before a reading
\* exists with its error and nothing else: the payload has null for
\* temperature, humidity, light, distance and timestamp, and the step
\* that returns it starts no save_to_db thread and creates no send_message
\* task; threads and tasks are as many as the readings returned.
C14_FailureIsErrorPayload ==
    /\ [](\A r \in bridge \cap DOMAIN ErrorOf :
            LatestParsed[r].kind # "ok" /\ LatestParsed[r].error = ErrorOf[r])
    /\ [](/\ \A i \in 1..Len(replies) :
              IsError(replies[i]) =>
                /\ replies[i] = ErrorPayload_(replies[i].error)
                /\ \E r \in bridge \cap DOMAIN ErrorOf : replies[i].error = ErrorOf[r]
          /\ Len(threads) = Cardinality(Readings(replies))
          /\ TasksUsed = Cardinality(Readings(replies)))
    /\ [][(Len(replies') = Len(replies) + 1 /\ IsError(replies'[Len(replies')])) =>
            (threads' = threads /\ send' = send /\ message_queue' = message_queue)]_vars

\* A request answered with "Invalid data format" after one answered with
\* a reading: one thread and one task, those of the reading.
C14_Witness ==
    /\ Len(replies) = 2
    /\ ~IsError(replies[1])
    /\ IsError(replies[2]) /\ replies[2].error = Text("Invalid data format")
    /\ replies[2].temperature = Null /\ replies[2].timestamp = Null
    /\ Len(threads) = 1 /\ TasksUsed = 1

\* q is the beginning of q2: nothing of q was removed.
IsPrefix(q, q2) == Len(q) <= Len(q2) /\ SubSeq(q2, 1, Len(q)) = q

\* A step of shutdown().
ShutdownSteps == shutdownPc' # shutdownPc

\* C15: shutdown() clears running; its steps leave the queue and what the
\* hub has received as they are; when it returns no client is left; and
\* once running is cleared it stays so, no entry leaves the queue any more,
\* and the drain loop stops at its next wake.
C15_ShutdownFrame ==
    /\ [](shutdownPc # "idle" => ~running)
    /\ [][ShutdownSteps => (message_queue' = message_queue /\ sent' = sent)]_vars
    /\ [][(ShutdownSteps /\ shutdownPc' = "done") =>
            (client' = "None" /\ sessions' = 0 /\ lock' = Free)]_vars
    /\ [][~running => (~running' /\ IsPrefix(message_queue, message_queue'))]_vars
    /\ [][(~running /\ drainPc = "sleep" /\ drainPc' # drainPc) =>
            drainPc' = "stopped"]_vars
    /\ [](drainPc = "stopped" => ~running)

\* shutdown() has returned after the hub had received a reading, a
\* reading is still queued, and the drain loop has stopped.
C15_Witness ==
    /\ shutdownPc = "done"
    /\ drainPc = "stopped"
    /\ message_queue # <<>>
    /\ sent # EmptyBag
    /\ client = "None"

\* Steps of sender s: its transmission fails, succeeds; it returns.
TxFails(s) == send[s].pc = "tx" /\ send'[s] # send[s] /\ sent' = sent

TxSucceeds(s) == send[s].pc = "tx" /\ send'[s] # send[s] /\ sent' # sent

Returns(s) == send[s].pc # "done" /\ send'[s].pc = "done"

\* C16: a send_message invocation transmits at most three times
\* (attempts 0, 1, 2).  A failed transmission before the third queues
\* nothing and goes to its backoff; the third failure appends the reading
\* to the queue, where it then is once, and goes on to the teardown, which
\* appends nothing more and ends with no client left.  A transmission
\* that succeeds returns with the queue and the client as they were.
C16_ThreeAttemptsThenQueueAndTeardown ==
    /\ [](\A s \in Senders : send[s].attempt \in 0..2)
    /\ [][\A s \in Senders :
            /\ (TxFails(s) /\ send[s].attempt < 2) =>
                 /\ message_queue' = message_queue
                 /\ send'[s].pc = "backoff"
            /\ (TxFails(s) /\ send[s].attempt = 2) =>
                 /\ message_queue' = Append(message_queue, send[s].data)
                 /\ Count(message_queue', send[s].data) = 1
                 /\ send'[s].pc \in {"lock_teardown", "disconnecting", "done"}
                 /\ send'[s].pc = "done" => client' = "None"
            /\ (send[s].pc \in {"lock_teardown", "disconnecting"}
                 /\ send'[s] # send[s]) =>
                 /\ message_queue' = message_queue
                 /\ Returns(s) => (client' = "None" /\ sessions' = 0)
            /\ TxSucceeds(s) =>
                 /\ Returns(s)
                 /\ message_queue' = message_queue
                 /\ client' = client /\ sessions' = sessions]_vars

\* The poll loop's third transmission has failed: its reading is in the
\* queue once and the teardown is disconnecting the client.
C16_Witness ==
    /\ send[Poll].pc = "disconnecting"
    /\ send[Poll].attempt = 2
    /\ Count(message_queue, send[Poll].data) = 1
    /\ lock = Poll

\* C17: the drain loop, at a wake, takes the head of the queue and nothing
\* else, and starts send_message on that entry; nothing but such a wake
\* ever removes an entry; while that send is under way the loop takes no
\* other entry, and when it has returned the loop sleeps; an entry the
\* send gives up on is appended at the tail.
C17_DrainFifo ==
    /\ [](drainPc = "send" <=> InFlight(Drain))
    /\ [][(drainPc = "sleep" /\ drainPc' = "send") =>
            /\ message_queue # <<>>
            /\ message_queue' = Tail(message_queue)
            /\ send'[Drain].data = Head(message_queue)
            /\ send'[Drain].attempt = 0]_vars
    /\ [][~IsPrefix(message_queue, message_queue') =>
            (drainPc = "sleep" /\ drainPc' = "send")]_vars
    /\ [][(drainPc = "send" /\ drainPc' # "send") =>
            (drainPc' = "sleep" /\ send'[Drain].pc = "done")]_vars
    /\ [][(drainPc = "send" /\ send'[Drain] # send[Drain]
           /\ message_queue' # message_queue) =>
            message_queue' = Append(message_queue, send[Drain].data)]_vars

\* With two readings queued the drain took the older, gave up on it and
\* appended it again, behind the newer; the loop sleeps.
C17_Witness ==
    /\ drainPc = "sleep"
    /\ send[Drain].pc = "done"
    /\ Len(message_queue) = 2
    /\ message_queue[1].timestamp = Stamp("poll", 2)
    /\ message_queue[2].timestamp = Stamp("poll", 1)
    /\ send[Drain].data = message_queue[2]

\* C18: once shutdown() has returned the manager holds no client: no
\* send_message, under way when shutdown ran or started later, by the poll
\* loop, the drain loop or a request's task, makes a new one.
C18_NoClientAfterShutdown == shutdownPc = "done" => client = "None"

\* The invocations of send_message that have reading k and have neither
\* transmitted nor queued it yet.
Holding(k) ==
    {s \in Senders : /\ send[s].pc \in {"ready", "lock_connect", "connecting",
                                         "tx", "backoff"}
                     /\ send[s].data.timestamp = k}

\* The positions of the queue that have reading k.
QueuedAt(k) == {i \in 1..Len(message_queue) : message_queue[i].timestamp = k}

RECURSIVE Copies(_, _)
Copies(ds, b) ==
    IF ds = {} THEN 0
    ELSE LET d == CHOOSE x \in ds : TRUE
         IN CopiesIn(d, b) + Copies(ds \ {d}, b)

\* How often reading k has been transmitted.
Transmitted(k) == Copies({d \in BagToSet(sent) : d.timestamp = k}, sent)

\* In how many places reading k is.
Places(k) == Cardinality(Holding(k)) + Cardinality(QueuedAt(k)) + Transmitted(k)

\* C19: a reading is never in two places at once (inside two invocations
\* of send_message, twice in the queue, transmitted twice, or in two of
\* these), and a reading that is in one place is in one place after every
\* step of the poll loop, the drain loop, a task and shutdown: it is never
\* lost.
C19_Conservation ==
    /\ [](\A k \in Stamps : Places(k) <= 1)
    /\ [][\A k \in Stamps : Places(k) = 1 => Places(k)' = 1]_vars

\* The poll loop gave up on its first reading after three attempts, the
\* drain loop took it from the queue and transmitted it, while the second
\* reading is in the queue.
C19_Witness ==
    /\ send[Poll].attempt = 2
    /\ send[Drain].pc = "done"
    /\ send[Drain].data.timestamp = Stamp("poll", 1)
    /\ Transmitted(Stamp("poll", 1)) = 1
    /\ QueuedAt(Stamp("poll", 1)) = {}
    /\ QueuedAt(Stamp("poll", 2)) = {1}

\* The response is a 200 whose line has four numeric fields, light and
\* distance not below 0, temperature and humidity not NaN.
Valid(r) ==
    /\ Floats(r) # <<>>
    /\ \A i \in 1..4 : Floats(r)[i].kind # "ValueError"
    /\ ~OutOfRange(Floats(r))

ValidLines == {r \in AllResponses : Valid(r)}

\* The readings the two paths make of the bridge's valid lines.
ValidReadings ==
    {FromPoll(r) : r \in {x \in bridge \cap ValidLines : PollParsed[x].kind = "ok"}}
    \cup {FromLatest(r) : r \in {x \in bridge \cap ValidLines : LatestParsed[x].kind = "ok"}}

\* The values of everything past the parser: what save_to_db was called
\* with and the rows it wrote, what send_message was called with, the
\* queue, what was transmitted, and what subscribers received.
Stored ==
    {<<db.sensor_data[i].temperature, db.sensor_data[i].humidity,
       db.sensor_data[i].light, db.sensor_data[i].distance>> :
        i \in 1..Len(db.sensor_data)}
    \cup {<<threads[w].temp, threads[w].hum, threads[w].light, threads[w].dist>> :
            w \in 1..Len(threads)}

Handed ==
    {Values(send[s].data) : s \in {x \in Senders : send[x] # Idle}}
    \cup {Values(message_queue[i]) : i \in 1..Len(message_queue)}
    \cup {Values(d) : d \in BagToSet(sent)}

Pushed == UNION {{Values(ws[c].received[i]) : i \in 1..Len(ws[c].received)} : c \in Clients}

\* A cycle of fetch_and_upload that made no reading; a request that
\* get_latest answered with an error.
CycleFails == cycles' # cycles /\ poll'.pc = "sleep"

RequestFails == replies' # replies /\ IsError(replies'[Len(replies')])

\* C20: every row written, every reading send_message or save_to_db was
\* called with, every queued or transmitted reading and every reading a
\* subscriber received is the reading of a 200 response whose line has
\* four numeric fields with light >= 0, distance >= 0, temperature and
\* humidity not NaN; a cycle or a request that made no reading starts no
\* write and no send and pushes nothing.
C20_OnlyValidatedLeave ==
    /\ [](Stored \cup Handed \cup Pushed \subseteq ValidReadings)
    /\ [][(CycleFails \/ RequestFails) =>
            /\ threads' = threads /\ db' = db
            /\ send' = send /\ message_queue' = message_queue /\ sent' = sent
            /\ ws' = ws]_vars

====
